---- MODULE Spec2Model ----
(***************************************************************************)
(* Model of the website contact extractor (src/websiteContactExtractor.js) *)
(* and of the daily job (src/cron-scraper.js).                             *)
(*                                                                         *)
(* Spec      the call extractWebsiteContactInfo(browser, websiteUrl): page *)
(*           setup, the navigation retry loop raced against the outer      *)
(*           timer, challenge/block checks, the two extraction passes, the *)
(*           merge, the catch block and the finally block.                 *)
(* SpecPass  one call of extractContactInfoFromPage(page): the link stage, *)
(*           the body-text email scan, the contact-element probe and the   *)
(*           in-page fallback probes, stage by stage.                      *)
(* SpecText  the body-text email scan on its own.                          *)
(* SpecHandle one call of extractSocialHandle(url, domains).               *)
(* SpecCron  one run of the daily job cron-scraper.js: dotenv at load,     *)
(*           updateTargetUrl, the launch of the scraper, the export.       *)
(*                                                                         *)
(* Strings are TLC strings; includes/startsWith/split/toLowerCase are      *)
(* computed character by character.                                        *)
(***************************************************************************)
EXTENDS Naturals, Sequences, FiniteSets, TLC

VARIABLES
    \* ---- extractWebsiteContactInfo
    pc,                     \* position in the call
    websiteUrl,             \* the argument: [given, text]
    pageOpen,               \* the page of this call is open
    trace,                  \* operations issued so far, in order
    clock,                  \* seconds since the outer timer was armed
    timerArmed,             \* timeoutPromise exists
    timerFired,             \* timeoutPromise is rejected
    firedInAttempt,         \* attempt in flight when the timer fired (0: none)
    retryCount,
    navigationSuccessful,
    inFlight,               \* the goto being raced: [dur, err]
    isCaptchaPresent,
    isBlocked,
    initialContactInfo,
    footerContactInfo,
    error,                  \* message of the error caught by the outer catch
    failedOp,               \* operation whose failure was thrown ("" if none)
    errorType,
    pending,                \* completion held while finally runs
    outcome,                \* "running" | "returned" | "rejected"
    result,                 \* the record returned
    \* ---- extractContactInfoFromPage
    ppc,                    \* position in the pass
    doc,                    \* the page the pass reads
    linkIdx,                \* index of the anchor being processed
    email,
    twitter,
    linkedin,
    website,
    emailStage,             \* stage that set email ("" if none)
    iconSocialInfo,
    jsContactInfo,
    domContactInfo,
    evaluated,              \* the page.evaluate calls the pass has issued
    \* ---- extractSocialHandle
    hpc,                    \* position in the call
    handleUrl,              \* the argument url
    handleDomains,          \* the argument domains
    handleResult,           \* the value returned
    \* ---- cron-scraper.js
    cpc,                    \* position in the script
    script,                 \* which version of the script runs
    envFile,                \* the .env file: [exists, lines]
    procEnv,                \* process.env
    now,                    \* the date of the run
    dirFiles,               \* the files of the script's directory
    updated,                \* what updateTargetUrl returned
    newTargetUrl,           \* the TARGET_URL line updateTargetUrl wrote
    logged,                 \* the log line before the launch
    childTargetUrl,         \* TARGET_URL in the environment of node index.js
    latestCsvFile,
    scraperStatus,          \* "" | "finished" | "failed"
    steps,                  \* the steps main has taken, in order
    exitCode                \* "" while the process runs

callVars == <<pc, websiteUrl, pageOpen, trace, clock, timerArmed, timerFired,
              firedInAttempt, retryCount, navigationSuccessful, inFlight,
              isCaptchaPresent, isBlocked, initialContactInfo,
              footerContactInfo, error, failedOp, errorType, pending,
              outcome, result>>

passVars == <<ppc, doc, linkIdx, email, twitter, linkedin, website, emailStage,
              iconSocialInfo, jsContactInfo, domContactInfo, evaluated>>

handleVars == <<hpc, handleUrl, handleDomains, handleResult>>

cronVars == <<cpc, script, envFile, procEnv, now, dirFiles, updated,
              newTargetUrl, logged, childTargetUrl, latestCsvFile,
              scraperStatus, steps, exitCode>>

vars == <<callVars, passVars, handleVars, cronVars>>

----------------------------------------------------------------------------
(* String helpers (JavaScript String methods)                              *)

RECURSIVE IndexFrom(_, _, _)
\* least i >= from with s[i .. i+Len(sub)-1] = sub, or 0
IndexFrom(s, sub, from) ==
    IF from + Len(sub) - 1 > Len(s) THEN 0
    ELSE IF SubSeq(s, from, from + Len(sub) - 1) = sub THEN from
    ELSE IndexFrom(s, sub, from + 1)

\* s.indexOf(sub), 1-based, 0 when absent
IndexOf(s, sub) == IndexFrom(s, sub, 1)

\* s.includes(sub)
Includes(s, sub) ==
    \E i \in 1..(Len(s) + 1) :
        i + Len(sub) - 1 <= Len(s) /\ SubSeq(s, i, i + Len(sub) - 1) = sub

\* s.startsWith(p)
StartsWith(s, p) == Len(s) >= Len(p) /\ SubSeq(s, 1, Len(p)) = p

\* s.endsWith(p)
EndsWith(s, p) == Len(s) >= Len(p) /\ SubSeq(s, Len(s) - Len(p) + 1, Len(s)) = p

\* s.split(sep)[0]
SplitFirst(s, sep) ==
    IF IndexOf(s, sep) = 0 THEN s ELSE SubSeq(s, 1, IndexOf(s, sep) - 1)

\* s.replace(p, '') with a string pattern: the first occurrence only
ReplaceFirst(s, p) ==
    IF IndexOf(s, p) = 0 THEN s
    ELSE SubSeq(s, 1, IndexOf(s, p) - 1)
         \o SubSeq(s, IndexOf(s, p) + Len(p), Len(s))

UpperChars == "ABCDEFGHIJKLMNOPQRSTUVWXYZ"
LowerChars == "abcdefghijklmnopqrstuvwxyz"

\* the upper-case letters, each with its lower-case letter
LowerOf ==
    [c \in {SubSeq(UpperChars, i, i) : i \in 1..26} |->
        LET i == IndexOf(UpperChars, c) IN SubSeq(LowerChars, i, i)]

LowerChar(c) == IF c \in DOMAIN LowerOf THEN LowerOf[c] ELSE c

RECURSIVE ToLowerCase(_)
\* s.toLowerCase()
ToLowerCase(s) ==
    IF Len(s) = 0 THEN ""
    ELSE IF Len(s) = 1 THEN LowerChar(s)
    ELSE ToLowerCase(SubSeq(s, 1, Len(s) \div 2))
         \o ToLowerCase(SubSeq(s, Len(s) \div 2 + 1, Len(s)))

RECURSIVE TrimLeft(_)
TrimLeft(s) ==
    IF Len(s) > 0 /\ SubSeq(s, 1, 1) = " " THEN TrimLeft(SubSeq(s, 2, Len(s)))
    ELSE s

RECURSIVE TrimRight(_)
TrimRight(s) ==
    IF Len(s) > 0 /\ SubSeq(s, Len(s), Len(s)) = " "
    THEN TrimRight(SubSeq(s, 1, Len(s) - 1))
    ELSE s

\* s.trim()
Trim(s) == TrimRight(TrimLeft(s))

RECURSIVE Count(_, _)
\* number of entries of sequence t equal to x
Count(t, x) ==
    IF t = <<>> THEN 0
    ELSE (IF Head(t) = x THEN 1 ELSE 0) + Count(Tail(t), x)

----------------------------------------------------------------------------
(* extractWebsiteContactInfo                                               *)

\* the value returned for a rejected input and from the catch block
EmptyRecord == [email |-> "", twitter |-> "", linkedin |-> "", website |-> ""]

\* "no record yet"
NoRecord == [email |-> "-", twitter |-> "-", linkedin |-> "-", website |-> "-"]

\* values one pass can yield for a field
FieldValues == {"", "a", "b"}

\* records one pass can yield
PassRecords == [email : FieldValues, twitter : {"", "a"},
                linkedin : {"", "b"}, website : FieldValues]

\* arguments the caller can pass
UrlInputs ==
    { [given |-> FALSE, text |-> ""],
      [given |-> TRUE,  text |-> ""],
      [given |-> TRUE,  text |-> "acme.com/contact"],
      [given |-> TRUE,  text |-> "https://"],
      [given |-> TRUE,  text |-> "https://acme.com"] }

\* utils.isValidUrl: a syntactically valid absolute URL
isValidUrl(u) ==
    \E scheme \in {"http://", "https://"} :
        StartsWith(u, scheme) /\ Len(u) > Len(scheme)

\* the guard of line 12, dropping the validity test
InputRejectedNoValidation(w) == ~w.given \/ w.text = ""

\* !websiteUrl || !isValidUrl(websiteUrl)
InputRejected(w) == ~w.given \/ w.text = "" \/ ~isValidUrl(w.text)

maxRetries == 3
OuterTimeout == 60
NavTimeout == 45
RetryDelay == 2

\* seconds a goto can take before it settles
NavDurations == {1, 15, NavTimeout}

TimedOutMsg == "Website navigation timed out"
NavTimeoutMsg == "Navigation timeout of 45000 ms exceeded"
OpErrorMsg == "Protocol error: Target closed"

\* transport errors of a goto that settles before its own timeout
NavErrors == {"net::ERR_NAME_NOT_RESOLVED at https://acme.com",
              "net::ERR_CONNECTION_REFUSED at https://acme.com"}

\* the page set-up calls between newPage and the try block
SetupOps == <<"setUserAgent", "setViewport", "setExtraHTTPHeaders",
              "setCookie", "setDefaultNavigationTimeout", "setDefaultTimeout">>

NoFlight == [dur |-> 0, err |-> ""]

\* the local state of a call before its first statement
CallFresh ==
    /\ pageOpen = FALSE
    /\ trace = <<>>
    /\ clock = 0
    /\ timerArmed = FALSE
    /\ timerFired = FALSE
    /\ firedInAttempt = 0
    /\ retryCount = 0
    /\ navigationSuccessful = FALSE
    /\ inFlight = NoFlight
    /\ isCaptchaPresent = FALSE
    /\ isBlocked = FALSE
    /\ initialContactInfo = NoRecord
    /\ footerContactInfo = NoRecord
    /\ error = ""
    /\ failedOp = ""
    /\ errorType = ""
    /\ pending = "none"
    /\ outcome = "running"
    /\ result = NoRecord

InitCall ==
    /\ pc = "start"
    /\ websiteUrl \in UrlInputs
    /\ CallFresh

\* no call of extractWebsiteContactInfo is in progress
CallIdle ==
    /\ pc = "idle"
    /\ websiteUrl = [given |-> FALSE, text |-> ""]
    /\ CallFresh

\* position after set-up call op
NextSetup(op) ==
    LET i == CHOOSE k \in 1..Len(SetupOps) : SetupOps[k] = op
    IN  IF i < Len(SetupOps) THEN SetupOps[i + 1] ELSE "try"

\* errorType of the catch block
Classify(msg) ==
    IF Includes(msg, "timeout") THEN "timeout"
    ELSE IF Includes(msg, "net::ERR_CONNECTION_REFUSED") THEN "connection_refused"
    ELSE IF Includes(msg, "net::ERR_NAME_NOT_RESOLVED") THEN "dns_error"
    ELSE IF Includes(msg, "net::ERR_ABORTED") THEN "aborted"
    ELSE IF Includes(msg, "net::ERR_CERT_") THEN "ssl_error"
    ELSE IF Includes(msg, "Navigation") THEN "navigation_error"
    ELSE "unknown"

\* a || b || '' on strings
OrElse(a, b) == IF a # "" THEN a ELSE IF b # "" THEN b ELSE ""

\* the merge preferring the initial pass
MergeInitialFirst(initial, footer) ==
    [email    |-> OrElse(initial.email, footer.email),
     twitter  |-> OrElse(initial.twitter, footer.twitter),
     linkedin |-> OrElse(initial.linkedin, footer.linkedin),
     website  |-> OrElse(initial.website, footer.website)]

\* mergedContactInfo
Merge(initial, footer) ==
    [email    |-> OrElse(footer.email, initial.email),
     twitter  |-> OrElse(footer.twitter, initial.twitter),
     linkedin |-> OrElse(footer.linkedin, initial.linkedin),
     website  |-> OrElse(footer.website, initial.website)]

\* an error thrown inside the try block reaches the outer catch
Throw(msg, op) ==
    /\ error' = msg
    /\ failedOp' = op
    /\ pc' = "catch"

\* lines 12-17: the input guard
Validate ==
    /\ pc = "start"
    /\ IF InputRejected(websiteUrl)
       THEN /\ result' = EmptyRecord
            /\ outcome' = "returned"
            /\ pc' = "done"
       ELSE /\ pc' = "newPage"
            /\ UNCHANGED <<result, outcome>>
    /\ UNCHANGED <<websiteUrl, pageOpen, trace, clock, timerArmed, timerFired,
                   firedInAttempt, retryCount, navigationSuccessful, inFlight,
                   isCaptchaPresent, isBlocked, initialContactInfo,
                   footerContactInfo, error, failedOp, errorType, pending>>
    /\ UNCHANGED <<passVars, handleVars, cronVars>>

\* line 20: browser.newPage(), outside the try block
NewPage ==
    /\ pc = "newPage"
    /\ trace' = Append(trace, "newPage")
    /\ \E ok \in BOOLEAN :
          IF ok
          THEN /\ pageOpen' = TRUE
               /\ pc' = SetupOps[1]
               /\ UNCHANGED <<outcome, failedOp>>
          ELSE /\ outcome' = "rejected"
               /\ failedOp' = "newPage"
               /\ pc' = "done"
               /\ UNCHANGED pageOpen
    /\ UNCHANGED <<websiteUrl, clock, timerArmed, timerFired, firedInAttempt,
                   retryCount, navigationSuccessful, inFlight, isCaptchaPresent,
                   isBlocked, initialContactInfo, footerContactInfo, error,
                   errorType, pending, result>>
    /\ UNCHANGED <<passVars, handleVars, cronVars>>

\* lines 23-51: one page set-up call, outside the try block
SetupStep ==
    /\ \E i \in 1..Len(SetupOps) : pc = SetupOps[i]
    /\ trace' = Append(trace, pc)
    /\ \E ok \in BOOLEAN :
          IF ok
          THEN /\ pc' = NextSetup(pc)
               /\ UNCHANGED <<outcome, failedOp>>
          ELSE /\ outcome' = "rejected"
               /\ failedOp' = pc
               /\ pc' = "done"
    /\ UNCHANGED <<websiteUrl, pageOpen, clock, timerArmed, timerFired,
                   firedInAttempt, retryCount, navigationSuccessful, inFlight,
                   isCaptchaPresent, isBlocked, initialContactInfo,
                   footerContactInfo, error, errorType, pending, result>>
    /\ UNCHANGED <<passVars, handleVars, cronVars>>

\* lines 53-63: the try block is entered and the outer timer armed
EnterTry ==
    /\ pc = "try"
    /\ timerArmed' = TRUE
    /\ clock' = 0
    /\ navigationSuccessful' = FALSE
    /\ retryCount' = 0
    /\ pc' = "loop"
    /\ UNCHANGED <<websiteUrl, pageOpen, trace, timerFired, firedInAttempt,
                   inFlight, isCaptchaPresent, isBlocked, initialContactInfo,
                   footerContactInfo, error, failedOp, errorType, pending,
                   outcome, result>>
    /\ UNCHANGED <<passVars, handleVars, cronVars>>

\* lines 65-83: the loop test holds and page.goto is issued
NavStart ==
    /\ pc = "loop"
    /\ ~navigationSuccessful /\ retryCount < maxRetries
    /\ trace' = Append(trace, "goto")
    /\ \E d \in NavDurations :
          \E e \in (IF d = NavTimeout THEN {NavTimeoutMsg} ELSE NavErrors \cup {""}) :
              inFlight' = [dur |-> d, err |-> e]
    /\ pc' = "race"
    /\ UNCHANGED <<websiteUrl, pageOpen, clock, timerArmed, timerFired,
                   firedInAttempt, retryCount, navigationSuccessful,
                   isCaptchaPresent, isBlocked, initialContactInfo,
                   footerContactInfo, error, failedOp, errorType, pending,
                   outcome, result>>
    /\ UNCHANGED <<passVars, handleVars, cronVars>>

\* lines 91-99: the catch inside the loop
NavCatch(msg) ==
    /\ retryCount' = retryCount + 1
    /\ IF retryCount + 1 < maxRetries
       THEN /\ pc' = "retryDelay"
            /\ UNCHANGED <<error, failedOp>>
       ELSE Throw(msg, "goto")

\* lines 86-90: the race is settled by the navigation promise
GotoSettles ==
    /\ pc = "race"
    /\ ~timerFired
    /\ clock + inFlight.dur <= OuterTimeout
    /\ clock' = clock + inFlight.dur
    /\ timerFired' = (clock + inFlight.dur >= OuterTimeout)
    /\ inFlight' = NoFlight
    /\ IF inFlight.err = ""
       THEN /\ navigationSuccessful' = TRUE
            /\ pc' = "loop"
            /\ UNCHANGED <<retryCount, error, failedOp>>
       ELSE /\ NavCatch(inFlight.err)
            /\ UNCHANGED navigationSuccessful
    /\ UNCHANGED <<websiteUrl, pageOpen, trace, timerArmed, firedInAttempt,
                   isCaptchaPresent, isBlocked, initialContactInfo,
                   footerContactInfo, errorType, pending, outcome, result>>
    /\ UNCHANGED <<passVars, handleVars, cronVars>>

\* lines 56-58, 86: the race is settled by timeoutPromise, rejected already or
\* rejecting while the goto is in flight
TimerWins ==
    /\ pc = "race"
    /\ timerFired \/ clock + inFlight.dur >= OuterTimeout
    /\ clock' = IF clock < OuterTimeout THEN OuterTimeout ELSE clock
    /\ timerFired' = TRUE
    /\ firedInAttempt' = IF timerFired THEN firedInAttempt ELSE retryCount + 1
    /\ inFlight' = NoFlight
    /\ NavCatch(TimedOutMsg)
    /\ UNCHANGED <<websiteUrl, pageOpen, trace, timerArmed,
                   navigationSuccessful, isCaptchaPresent, isBlocked,
                   initialContactInfo, footerContactInfo, errorType, pending,
                   outcome, result>>
    /\ UNCHANGED <<passVars, handleVars, cronVars>>

\* line 95: delay(2000) before the next attempt
RetryPause ==
    /\ pc = "retryDelay"
    /\ trace' = Append(trace, "delay")
    /\ clock' = clock + RetryDelay
    /\ timerFired' = (timerFired \/ clock + RetryDelay >= OuterTimeout)
    /\ pc' = "loop"
    /\ UNCHANGED <<websiteUrl, pageOpen, timerArmed, firedInAttempt, retryCount,
                   navigationSuccessful, inFlight, isCaptchaPresent, isBlocked,
                   initialContactInfo, footerContactInfo, error, failedOp,
                   errorType, pending, outcome, result>>
    /\ UNCHANGED <<passVars, handleVars, cronVars>>


\* line 65 fails after a successful attempt: the loop is left
LoopExit ==
    /\ pc = "loop"
    /\ ~(~navigationSuccessful /\ retryCount < maxRetries)
    /\ pc' = "checkCaptcha"
    /\ UNCHANGED <<websiteUrl, pageOpen, trace, clock, timerArmed, timerFired,
                   firedInAttempt, retryCount, navigationSuccessful, inFlight,
                   isCaptchaPresent, isBlocked, initialContactInfo,
                   footerContactInfo, error, failedOp, errorType, pending,
                   outcome, result>>
    /\ UNCHANGED <<passVars, handleVars, cronVars>>

\* lines 103-122: the challenge check
CheckCaptcha ==
    /\ pc = "checkCaptcha"
    /\ trace' = Append(trace, "evaluateCaptcha")
    /\ \E ok \in BOOLEAN :
          IF ok
          THEN /\ \E c \in BOOLEAN :
                     /\ isCaptchaPresent' = c
                     /\ pc' = IF c THEN "captchaShot" ELSE "checkBlocked"
               /\ UNCHANGED <<error, failedOp>>
          ELSE /\ Throw(OpErrorMsg, "evaluateCaptcha")
               /\ UNCHANGED isCaptchaPresent
    /\ UNCHANGED <<websiteUrl, pageOpen, clock, timerArmed, timerFired,
                   firedInAttempt, retryCount, navigationSuccessful, inFlight,
                   isBlocked, initialContactInfo, footerContactInfo, errorType,
                   pending, outcome, result>>
    /\ UNCHANGED <<passVars, handleVars, cronVars>>

\* lines 122-126: the screenshot taken when a challenge was detected
CaptchaScreenshot ==
    /\ pc = "captchaShot"
    /\ trace' = Append(trace, "screenshotCaptcha")
    /\ \E ok \in BOOLEAN :
          IF ok
          THEN /\ pc' = "checkBlocked"
               /\ UNCHANGED <<error, failedOp>>
          ELSE Throw(OpErrorMsg, "screenshotCaptcha")
    /\ UNCHANGED <<websiteUrl, pageOpen, clock, timerArmed, timerFired,
                   firedInAttempt, retryCount, navigationSuccessful, inFlight,
                   isCaptchaPresent, isBlocked, initialContactInfo,
                   footerContactInfo, errorType, pending, outcome, result>>
    /\ UNCHANGED <<passVars, handleVars, cronVars>>

\* lines 129-145: the block check
CheckBlocked ==
    /\ pc = "checkBlocked"
    /\ trace' = Append(trace, "evaluateBlocked")
    /\ \E ok \in BOOLEAN :
          IF ok
          THEN /\ \E b \in BOOLEAN :
                     /\ isBlocked' = b
                     /\ pc' = IF b THEN "blockedShot" ELSE "initialPass"
               /\ UNCHANGED <<error, failedOp>>
          ELSE /\ Throw(OpErrorMsg, "evaluateBlocked")
               /\ UNCHANGED isBlocked
    /\ UNCHANGED <<websiteUrl, pageOpen, clock, timerArmed, timerFired,
                   firedInAttempt, retryCount, navigationSuccessful, inFlight,
                   isCaptchaPresent, initialContactInfo, footerContactInfo,
                   errorType, pending, outcome, result>>
    /\ UNCHANGED <<passVars, handleVars, cronVars>>

\* lines 145-149: the screenshot taken when a block was detected
BlockedScreenshot ==
    /\ pc = "blockedShot"
    /\ trace' = Append(trace, "screenshotBlocked")
    /\ \E ok \in BOOLEAN :
          IF ok
          THEN /\ pc' = "initialPass"
               /\ UNCHANGED <<error, failedOp>>
          ELSE Throw(OpErrorMsg, "screenshotBlocked")
    /\ UNCHANGED <<websiteUrl, pageOpen, clock, timerArmed, timerFired,
                   firedInAttempt, retryCount, navigationSuccessful, inFlight,
                   isCaptchaPresent, isBlocked, initialContactInfo,
                   footerContactInfo, errorType, pending, outcome, result>>
    /\ UNCHANGED <<passVars, handleVars, cronVars>>

\* lines 152-155 followed at once by line 166: the scroll of lines 158-163
\* is left out
InitialPassThenFooterPass ==
    /\ pc = "initialPass"
    /\ trace' = Append(trace, "initialPass")
    /\ \E ok \in BOOLEAN :
          IF ok
          THEN /\ \E r \in PassRecords : initialContactInfo' = r
               /\ pc' = "footerPass"
               /\ UNCHANGED <<error, failedOp>>
          ELSE /\ Throw(OpErrorMsg, "initialPass")
               /\ UNCHANGED initialContactInfo
    /\ UNCHANGED <<websiteUrl, pageOpen, clock, timerArmed, timerFired,
                   firedInAttempt, retryCount, navigationSuccessful, inFlight,
                   isCaptchaPresent, isBlocked, footerContactInfo, errorType,
                   pending, outcome, result>>
    /\ UNCHANGED <<passVars, handleVars, cronVars>>

\* lines 152-155: settle delay, then the initial extraction pass
InitialPass ==
    /\ pc = "initialPass"
    /\ trace' = Append(trace, "initialPass")
    /\ \E ok \in BOOLEAN :
          IF ok
          THEN /\ \E r \in PassRecords : initialContactInfo' = r
               /\ pc' = "scroll"
               /\ UNCHANGED <<error, failedOp>>
          ELSE /\ Throw(OpErrorMsg, "initialPass")
               /\ UNCHANGED initialContactInfo
    /\ UNCHANGED <<websiteUrl, pageOpen, clock, timerArmed, timerFired,
                   firedInAttempt, retryCount, navigationSuccessful, inFlight,
                   isCaptchaPresent, isBlocked, footerContactInfo, errorType,
                   pending, outcome, result>>
    /\ UNCHANGED <<passVars, handleVars, cronVars>>

\* lines 158-163: scroll to the end of the page, then the settle delay
Scroll ==
    /\ pc = "scroll"
    /\ trace' = Append(trace, "scroll")
    /\ \E ok \in BOOLEAN :
          IF ok
          THEN /\ pc' = "footerPass"
               /\ UNCHANGED <<error, failedOp>>
          ELSE Throw(OpErrorMsg, "scroll")
    /\ UNCHANGED <<websiteUrl, pageOpen, clock, timerArmed, timerFired,
                   firedInAttempt, retryCount, navigationSuccessful, inFlight,
                   isCaptchaPresent, isBlocked, initialContactInfo,
                   footerContactInfo, errorType, pending, outcome, result>>
    /\ UNCHANGED <<passVars, handleVars, cronVars>>

\* line 166: the post-scroll extraction pass
FooterPass ==
    /\ pc = "footerPass"
    /\ trace' = Append(trace, "footerPass")
    /\ \E ok \in BOOLEAN :
          IF ok
          THEN /\ \E r \in PassRecords : footerContactInfo' = r
               /\ pc' = "merge"
               /\ UNCHANGED <<error, failedOp>>
          ELSE /\ Throw(OpErrorMsg, "footerPass")
               /\ UNCHANGED footerContactInfo
    /\ UNCHANGED <<websiteUrl, pageOpen, clock, timerArmed, timerFired,
                   firedInAttempt, retryCount, navigationSuccessful, inFlight,
                   isCaptchaPresent, isBlocked, initialContactInfo, errorType,
                   pending, outcome, result>>
    /\ UNCHANGED <<passVars, handleVars, cronVars>>

\* lines 169-176: the merge and the return statement of the try block
MergeAndReturn ==
    /\ pc = "merge"
    /\ result' = Merge(initialContactInfo, footerContactInfo)
    /\ pending' = "return"
    /\ pc' = "finally"
    /\ UNCHANGED <<websiteUrl, pageOpen, trace, clock, timerArmed, timerFired,
                   firedInAttempt, retryCount, navigationSuccessful, inFlight,
                   isCaptchaPresent, isBlocked, initialContactInfo,
                   footerContactInfo, error, failedOp, errorType, outcome>>
    /\ UNCHANGED <<passVars, handleVars, cronVars>>

\* lines 177-196: the outer catch classifies the error
Catch ==
    /\ pc = "catch"
    /\ errorType' = Classify(error)
    /\ pc' = "errorShot"
    /\ UNCHANGED <<websiteUrl, pageOpen, trace, clock, timerArmed, timerFired,
                   firedInAttempt, retryCount, navigationSuccessful, inFlight,
                   isCaptchaPresent, isBlocked, initialContactInfo,
                   footerContactInfo, error, failedOp, pending, outcome,
                   result>>
    /\ UNCHANGED <<passVars, handleVars, cronVars>>

\* lines 199-205: the error screenshot, whose own failure is caught and only
\* logged, and the return of the catch
ErrorScreenshot ==
    /\ pc = "errorShot"
    /\ trace' = Append(trace, "screenshotError")
    /\ result' = EmptyRecord
    /\ pending' = "return"
    /\ pc' = "finally"
    /\ UNCHANGED <<websiteUrl, pageOpen, clock, timerArmed, timerFired,
                   firedInAttempt, retryCount, navigationSuccessful, inFlight,
                   isCaptchaPresent, isBlocked, initialContactInfo,
                   footerContactInfo, error, failedOp, errorType, outcome>>
    /\ UNCHANGED <<passVars, handleVars, cronVars>>

\* lines 206-209: finally awaits page.close(); a rejection of close replaces
\* the pending return
Finally ==
    /\ pc = "finally"
    /\ trace' = Append(trace, "close")
    /\ \E ok \in BOOLEAN :
          IF ok
          THEN /\ pageOpen' = FALSE
               /\ outcome' = "returned"
               /\ UNCHANGED <<result, failedOp>>
          ELSE /\ pageOpen' \in BOOLEAN
               /\ outcome' = "rejected"
               /\ result' = NoRecord
               /\ UNCHANGED failedOp
    /\ pending' = "none"
    /\ pc' = "done"
    /\ UNCHANGED <<websiteUrl, clock, timerArmed, timerFired, firedInAttempt,
                   retryCount, navigationSuccessful, inFlight, isCaptchaPresent,
                   isBlocked, initialContactInfo, footerContactInfo, error,
                   errorType>>
    /\ UNCHANGED <<passVars, handleVars, cronVars>>

NextCall ==
    \/ Validate
    \/ NewPage
    \/ SetupStep
    \/ EnterTry
    \/ NavStart
    \/ GotoSettles
    \/ TimerWins
    \/ RetryPause
    \/ LoopExit
    \/ CheckCaptcha
    \/ CaptchaScreenshot
    \/ CheckBlocked
    \/ BlockedScreenshot
    \/ InitialPass
    \/ Scroll
    \/ FooterPass
    \/ MergeAndReturn
    \/ Catch
    \/ ErrorScreenshot
    \/ Finally

----------------------------------------------------------------------------
(* extractSocialHandle                                                     *)

RECURSIVE LastIndexFrom(_, _, _)
\* greatest i <= from with s[i .. i+Len(sub)-1] = sub, or 0
LastIndexFrom(s, sub, from) ==
    IF from < 1 THEN 0
    ELSE IF from + Len(sub) - 1 <= Len(s) /\ SubSeq(s, from, from + Len(sub) - 1) = sub
         THEN from
         ELSE LastIndexFrom(s, sub, from - 1)

\* parts[parts.length - 1] of s.split(sep)
SplitLast(s, sep) ==
    LET i == LastIndexFrom(s, sep, Len(s))
    IN  IF i = 0 THEN s ELSE SubSeq(s, i + Len(sep), Len(s))

\* lines 719-745
extractSocialHandle(url, domains) ==
    IF url = "" THEN ""
    ELSE IF ~(\E d \in domains : Includes(url, d)) THEN url
    ELSE LET noQuery == SplitFirst(SplitFirst(url, "?"), "#")
             u       == IF EndsWith(noQuery, "/")
                        THEN SubSeq(noQuery, 1, Len(noQuery) - 1)
                        ELSE noQuery
             handle  == SplitLast(u, "/")
         IN  IF handle # "" /\ ~Includes(handle, ".") /\ handle \notin domains
             THEN handle
             ELSE u

TwitterDomains == {"twitter.com", "x.com"}

\* the URLs extractSocialHandle is called on: a host, a path and a suffix
HandleUrls ==
    { host \o path \o suffix :
        host \in {"https://twitter.com", "https://x.com", "twitter.com",
                  "https://www.linkedin.com"},
        path \in {"", "/", "/foocorp", "/foocorp/", "/in/jane", "/foo.bar",
                  "/x.com"},
        suffix \in {"", "?lang=en", "#about", "?lang=en#about"} }

\* the domain sets extractSocialHandle is called with
HandleDomainSets == {TwitterDomains, {"linkedin.com"}}

\* no call of extractSocialHandle is in progress
HandleIdle ==
    /\ hpc = "idle"
    /\ handleUrl = ""
    /\ handleDomains = {}
    /\ handleResult = ""

InitHandle ==
    /\ hpc = "call"
    /\ handleUrl \in HandleUrls
    /\ handleDomains \in HandleDomainSets
    /\ handleResult = ""

\* lines 719-745: one call of extractSocialHandle
CallExtractSocialHandle ==
    /\ hpc = "call"
    /\ handleResult' = extractSocialHandle(handleUrl, handleDomains)
    /\ hpc' = "returned"
    /\ UNCHANGED <<handleUrl, handleDomains>>
    /\ UNCHANGED <<callVars, passVars, cronVars>>

----------------------------------------------------------------------------
(* extractContactInfoFromPage: the static snapshot                         *)

\* the contact-region selectors modelled, in the order of footerSelectors
Selectors == <<"footer", ".social">>

\* anchors a page can hold; sels: the selectors matching an ancestor
\* cls: the class attribute of the anchor itself
AnchorPool ==
    { [href |-> "mailto:hello@foo.io?subject=hi", text |-> "Contact",
       html |-> "Contact", cls |-> "", sels |-> {"footer"}],
      [href |-> "https://twitter.com/foocorp", text |-> "X",
       html |-> "X", cls |-> "", sels |-> {"footer", ".social"}],
      [href |-> "mailto:test@example.com", text |-> "Email us",
       html |-> "Email us", cls |-> "", sels |-> {}],
      [href |-> "/contact", text |-> "Get in touch",
       html |-> "Get in touch", cls |-> "", sels |-> {"footer"}],
      [href |-> "https://x.com/foocorp", text |-> "",
       html |-> "", cls |-> "fa-twitter", sels |-> {}],
      [href |-> "https://www.linkedin.com/in/jane", text |-> "LinkedIn",
       html |-> "LinkedIn", cls |-> "", sels |-> {".social"}] }

\* addresses the body text can hold
EmailPool ==
    { "user@example.com", "joe@gmail.com", "sales@acmemail.com",
      "contact@acme.com", "info@acme.com", "amy@acme.com" }

\* the body texts of the runs of a whole pass.  bodyEmails: the matches of
\* emailRegex in the body text, in text order; contactFirst: index of the
\* body match that is the first address inside a contact element (0: none)
PassBodies ==
    { [bodyEmails |-> <<>>, contactFirst |-> 0],
      [bodyEmails |-> <<"user@example.com">>, contactFirst |-> 1],
      [bodyEmails |-> <<"user@example.com", "amy@acme.com">>, contactFirst |-> 0],
      [bodyEmails |-> <<"amy@acme.com", "user@example.com">>, contactFirst |-> 2] }

MaxAnchors == 2
MaxMatches == 3

\* page.url() of the snapshots
PageUrl == "https://www.foo.io/pricing"

\* sequences over S of length at most n
SeqUpTo(S, n) == UNION { [1..k -> S] : k \in 0..n }

\* the snapshots a whole pass is run on.
\* regions: the selectors of footerSelectors that match some element;
\* wrapped: the anchors are the children of one div (else of the body)
PassDocs ==
    { d \in [anchors : SeqUpTo(AnchorPool, MaxAnchors),
             wrapped : BOOLEAN,
             regions : SUBSET {Selectors[k] : k \in 1..Len(Selectors)},
             bodyEmails : {b.bodyEmails : b \in PassBodies},
             contactFirst : {b.contactFirst : b \in PassBodies},
             url : {PageUrl}] :
        /\ [bodyEmails |-> d.bodyEmails, contactFirst |-> d.contactFirst]
              \in PassBodies
        /\ d.wrapped => d.anchors # <<>>
        /\ \A i \in 1..Len(d.anchors) : d.anchors[i].sels \subseteq d.regions }

\* the snapshots the body-text scan alone is run on
TextDocs ==
    [anchors : {<<>>},
     wrapped : {FALSE},
     regions : {{}},
     bodyEmails : SeqUpTo(EmailPool, MaxMatches),
     contactFirst : {0},
     url : {PageUrl}]

RECURSIVE UnderSelector(_, _)
\* footerElement.find('a') for one selector: the anchors below its matches
UnderSelector(anchors, sel) ==
    IF anchors = <<>> THEN <<>>
    ELSE (IF sel \in Head(anchors).sels THEN <<Head(anchors)>> ELSE <<>>)
         \o UnderSelector(Tail(anchors), sel)

RECURSIVE FooterLinks(_, _)
\* lines 306-316: the anchors pushed selector by selector, from selector k on
FooterLinks(d, k) ==
    IF k > Len(Selectors) THEN <<>>
    ELSE (IF Selectors[k] \in d.regions
          THEN UnderSelector(d.anchors, Selectors[k]) ELSE <<>>)
         \o FooterLinks(d, k + 1)

\* lines 304-316 without the fallback of lines 319-325
SocialLinksFooterOnly(d) == FooterLinks(d, 1)

\* lines 304-325: socialLinks
SocialLinks(d) ==
    IF FooterLinks(d, 1) = <<>> THEN d.anchors
    ELSE FooterLinks(d, 1)

----------------------------------------------------------------------------
(* the link stage                                                          *)

TwitterMarkup ==
    {"twitter", "x-twitter", "fa-twitter", "icon-twitter", "twitter-icon",
     "twitter-logo", "twitter.svg", "x.svg", "x-logo", "x-icon"}

LinkedinMarkup ==
    {"linkedin", "fa-linkedin", "icon-linkedin", "linkedin-icon",
     "linkedin-logo", "linkedin.svg"}

\* line 339 without the split at '?'
MailtoAddressKeepQuery(href) == Trim(ReplaceFirst(href, "mailto:"))

\* line 339
MailtoAddress(href) == SplitFirst(Trim(ReplaceFirst(href, "mailto:")), "?")

\* lines 344-350
LooksTwitter(href, text, html) ==
    \/ Includes(href, "twitter.com") \/ Includes(href, "x.com")
    \/ Includes(text, "twitter") \/ Includes(text, "x.com")
    \/ \E t \in TwitterMarkup : Includes(html, t)

\* lines 356-359
LooksLinkedin(href, text, html) ==
    \/ Includes(href, "linkedin.com") \/ Includes(text, "linkedin")
    \/ \E t \in LinkedinMarkup : Includes(html, t)

\* lines 365-372
LooksContactPage(href, text) ==
    \/ \E t \in {"/contact", "/about", "/support", "/help"} : Includes(href, t)
    \/ \E t \in {"contact", "get in touch", "reach out", "support"} : Includes(text, t)

\* new URL(u) succeeds
UrlParses(u) == IndexOf(u, "://") > 1

\* new URL(u).origin: scheme and authority
Origin(u) ==
    LET slash == IndexFrom(u, "/", IndexOf(u, "://") + 3)
    IN  IF slash = 0 THEN u ELSE SubSeq(u, 1, slash - 1)

\* lines 374-385 without the test of line 374: any href that is not relative
\* is taken as it stands
ContactPageUrlAnyHref(href, pageUrl) ==
    IF StartsWith(href, "/")
    THEN (IF UrlParses(pageUrl) THEN Origin(pageUrl) \o href ELSE href)
    ELSE href

\* lines 374-385: the contact page URL for a classified href ("" if none)
ContactPageUrl(href, pageUrl) ==
    IF StartsWith(href, "http") THEN href
    ELSE IF StartsWith(href, "/")
         THEN (IF UrlParses(pageUrl) THEN Origin(pageUrl) \o href ELSE href)
         ELSE ""


----------------------------------------------------------------------------
(* the body-text email scan                                                *)

\* lines 400-411
DenyList ==
    {"example.com", "yourdomain.com", "domain.com", "email@", "user@",
     "username@", "name@", "your@", "someone@", "john.doe@", "jane.doe@",
     "test@"}

\* lines 417-424
ConsumerList ==
    {"gmail.com", "yahoo.com", "hotmail.com", "outlook.com", "icloud.com",
     "aol.com", "protonmail.com", "mail.com"}

\* lines 430-434
RoleList == {"contact@", "info@", "hello@", "support@", "help@"}

\* the predicate of filteredEmails
PassesDenyList(e) == \A d \in DenyList : ~Includes(e, d)

\* the predicate of businessEmails
IsBusiness(e) == \A c \in ConsumerList : ~Includes(ToLowerCase(e), c)

\* the predicate of priorityEmails
IsPriority(e) == \E r \in RoleList : Includes(ToLowerCase(e), r)

\* lines 397-443: the address chosen from the matches of emailRegex
SelectBodyEmail(emailMatches) ==
    LET filteredEmails == SelectSeq(emailMatches, PassesDenyList)
        businessEmails == SelectSeq(filteredEmails, IsBusiness)
        priorityEmails == SelectSeq(businessEmails, IsPriority)
    IN  IF filteredEmails = <<>> THEN ""
        ELSE IF businessEmails # <<>>
             THEN (IF priorityEmails # <<>> THEN priorityEmails[1]
                   ELSE businessEmails[1])
             ELSE filteredEmails[1]

\* lines 447-459: the first address found in a contact element
ContactElementEmail(d) ==
    IF d.contactFirst = 0 THEN "" ELSE d.bodyEmails[d.contactFirst]

----------------------------------------------------------------------------
(* the in-page probes                                                      *)

\* element.href of an anchor: the href attribute resolved against the page
ResolvedHref(a, pageUrl) ==
    IF StartsWith(a.href, "/") /\ UrlParses(pageUrl)
    THEN Origin(pageUrl) \o a.href
    ELSE a.href

\* element.outerHTML of an anchor
OuterHtml(a) ==
    "<a class='" \o a.cls \o "' href='" \o a.href \o "'>" \o a.html \o "</a>"

RECURSIVE ConcatOuter(_)
\* the markup of a sequence of anchors
ConcatOuter(anchors) ==
    IF anchors = <<>> THEN ""
    ELSE OuterHtml(Head(anchors)) \o ConcatOuter(Tail(anchors))

\* line 471: the elements of querySelectorAll('a, button, div, span, i') in
\* document order.  html: outerHTML.toLowerCase(); href: the attribute;
\* link: the URL lines 495-507 take for the element ("" if none)
ScanElements(d) ==
    (IF d.wrapped
     THEN << [tag |-> "DIV",
              html |-> ToLowerCase("<div>" \o ConcatOuter(d.anchors) \o "</div>"),
              href |-> "", cls |-> "",
              link |-> IF d.anchors = <<>> THEN ""
                       ELSE ResolvedHref(d.anchors[1], d.url)] >>
     ELSE <<>>)
    \o [i \in 1..Len(d.anchors) |->
          [tag |-> "A", html |-> ToLowerCase(OuterHtml(d.anchors[i])),
           href |-> d.anchors[i].href, cls |-> d.anchors[i].cls,
           link |-> ResolvedHref(d.anchors[i], d.url)]]

\* lines 479-493
IconLooksTwitter(e) ==
    \/ \E t \in TwitterMarkup : Includes(e.html, t)
    \/ Includes(e.cls, "twitter") \/ Includes(e.cls, "x-twitter")
    \/ Includes(e.href, "twitter.com") \/ Includes(e.href, "x.com")

\* lines 511-519
IconLooksLinkedin(e) ==
    \/ \E t \in LinkedinMarkup : Includes(e.html, t)
    \/ Includes(e.cls, "linkedin")
    \/ Includes(e.href, "linkedin.com")

\* the link of the first element of elems among the indices hits ("" if none)
FirstLink(elems, hits) ==
    IF hits = {} THEN ""
    ELSE elems[CHOOSE i \in hits : \A j \in hits : i <= j].link

\* lines 473-537: the loop over the elements
IconResultFrom(elems) ==
    [twitter  |-> FirstLink(elems, {i \in 1..Len(elems) :
                      IconLooksTwitter(elems[i]) /\ elems[i].link # ""}),
     linkedin |-> FirstLink(elems, {i \in 1..Len(elems) :
                      IconLooksLinkedin(elems[i]) /\ elems[i].link # ""})]

\* lines 467-538: the value page.evaluate returns for iconSocialInfo
IconResult(d) == IconResultFrom(ScanElements(d))


\* values page.evaluate can return for jsContactInfo
JsResults ==
    [email : {"", "someone@yourdomain.com"},
     twitter : {"", "https://twitter.com/foocorp?lang=en"},
     linkedin : {""},
     website : {"", "https://www.foo.io/contact"}]

\* values page.evaluate can return for domContactInfo
DomResults ==
    [email : {"", "dev@foo.io"},
     twitter : {"", "https://twitter.com/acme/"},
     linkedin : {""}]

\* values of document.body.innerText read by the domain guess
InnerTexts == {"", "Write to hello@foo.io or support@foo.io"}

\* an in-page result copied over a field whatever the field holds
FillAlways(current, found) == IF found # "" THEN found ELSE current

\* if (found && !current) current = found
FillIfEmpty(current, found) ==
    IF found # "" /\ current = "" THEN found ELSE current

\* new URL(u).hostname
Hostname(u) ==
    LET o == Origin(u) IN SubSeq(o, IndexOf(o, "://") + 3, Len(o))

\* lines 687-692
CommonEmails(domain) ==
    <<"info@" \o domain, "contact@" \o domain, "hello@" \o domain,
      "support@" \o domain>>

RECURSIVE FirstIncluded(_, _)
\* lines 698-704: the first candidate the text includes ("" if none)
FirstIncluded(candidates, pageText) ==
    IF candidates = <<>> THEN ""
    ELSE IF Includes(pageText, Head(candidates)) THEN Head(candidates)
    ELSE FirstIncluded(Tail(candidates), pageText)

\* lines 683-704
GuessEmail(pageUrl, pageText) ==
    FirstIncluded(CommonEmails(ReplaceFirst(Hostname(pageUrl), "www.")), pageText)


----------------------------------------------------------------------------
(* extractContactInfoFromPage, stage by stage                              *)

\* lines 330-388: the body of the loop over socialLinks for one anchor
ProcessAnchor(link, cur, pageUrl) ==
    LET href == link.href
        text == ToLowerCase(link.text)
        html == link.html
    IN  IF href = "" THEN cur
        ELSE [email    |-> IF StartsWith(href, "mailto:") /\ cur.email = ""
                           THEN MailtoAddress(href) ELSE cur.email,
              twitter  |-> IF LooksTwitter(href, text, html) /\ cur.twitter = ""
                           THEN extractSocialHandle(href, TwitterDomains)
                           ELSE cur.twitter,
              linkedin |-> IF LooksLinkedin(href, text, html) /\ cur.linkedin = ""
                           THEN href ELSE cur.linkedin,
              website  |-> IF LooksContactPage(href, text) /\ cur.website = ""
                              /\ ContactPageUrl(href, pageUrl) # ""
                           THEN ContactPageUrl(href, pageUrl) ELSE cur.website]

\* the fields of the pass as a record
Fields == [email |-> email, twitter |-> twitter, linkedin |-> linkedin,
           website |-> website]

\* the stage recorded for email after a step that may have set it
StageAfter(newEmail, stage) ==
    IF email = "" /\ newEmail # "" THEN stage ELSE emailStage

\* the local state of a pass before its first statement
PassFresh ==
    /\ linkIdx = 0
    /\ email = ""
    /\ twitter = ""
    /\ linkedin = ""
    /\ website = ""
    /\ emailStage = ""
    /\ iconSocialInfo = EmptyRecord
    /\ jsContactInfo = EmptyRecord
    /\ domContactInfo = EmptyRecord
    /\ evaluated = <<>>

\* no call of extractContactInfoFromPage is in progress
PassIdle ==
    /\ ppc = "idle"
    /\ doc = <<>>
    /\ PassFresh

InitPass ==
    /\ ppc = "content"
    /\ doc \in PassDocs
    /\ PassFresh

InitText ==
    /\ ppc = "text"
    /\ doc \in TextDocs
    /\ PassFresh

\* lines 219-327: page.content(), cheerio.load, the collection of socialLinks
LoadContent ==
    /\ ppc = "content"
    /\ \E ok \in BOOLEAN :
          IF ok
          THEN /\ ppc' = IF SocialLinks(doc) = <<>> THEN "text" ELSE "links"
               /\ linkIdx' = 1
          ELSE /\ ppc' = "failed"
               /\ UNCHANGED linkIdx
    /\ UNCHANGED <<doc, email, twitter, linkedin, website, emailStage,
                   iconSocialInfo, jsContactInfo, domContactInfo, evaluated>>
    /\ UNCHANGED <<callVars, handleVars, cronVars>>

\* lines 330-388: one iteration of the loop over socialLinks
ProcessLink ==
    /\ ppc = "links"
    /\ linkIdx <= Len(SocialLinks(doc))
    /\ LET new == ProcessAnchor(SocialLinks(doc)[linkIdx], Fields, doc.url)
       IN  /\ email' = new.email
           /\ twitter' = new.twitter
           /\ linkedin' = new.linkedin
           /\ website' = new.website
           /\ emailStage' = StageAfter(new.email, "mailto")
    /\ linkIdx' = linkIdx + 1
    /\ ppc' = IF linkIdx = Len(SocialLinks(doc)) THEN "text" ELSE "links"
    /\ UNCHANGED <<doc, iconSocialInfo, jsContactInfo, domContactInfo,
                   evaluated>>
    /\ UNCHANGED <<callVars, handleVars, cronVars>>

\* lines 391-444: the body-text scan
TextScan ==
    /\ ppc = "text"
    /\ email' = IF email = "" THEN SelectBodyEmail(doc.bodyEmails) ELSE email
    /\ emailStage' = StageAfter(SelectBodyEmail(doc.bodyEmails), "text")
    /\ ppc' = "contactEl"
    /\ UNCHANGED <<doc, linkIdx, twitter, linkedin, website, iconSocialInfo,
                   jsContactInfo, domContactInfo, evaluated>>
    /\ UNCHANGED <<callVars, handleVars, cronVars>>

\* lines 446-459: the contact-element probe
ContactProbe ==
    /\ ppc = "contactEl"
    /\ email' = IF email = "" THEN ContactElementEmail(doc) ELSE email
    /\ emailStage' = StageAfter(ContactElementEmail(doc), "contactEl")
    /\ ppc' = "icons"
    /\ UNCHANGED <<doc, linkIdx, twitter, linkedin, website, iconSocialInfo,
                   jsContactInfo, domContactInfo, evaluated>>
    /\ UNCHANGED <<callVars, handleVars, cronVars>>

\* line 463
IconScanRuns == twitter = "" \/ linkedin = ""

\* line 553 with || in place of &&
JsScanRunsIfAnyEmpty ==
    email = "" \/ twitter = "" \/ linkedin = "" \/ website = ""

\* line 553
JsScanRuns == email = "" /\ twitter = "" /\ linkedin = "" /\ website = ""

\* line 620
DomScanRuns == email = "" \/ twitter = "" \/ linkedin = ""

\* line 681
DomainGuessRuns == email = "" /\ doc.url # ""

\* lines 463-550: the broad element scan
IconScan ==
    /\ ppc = "icons"
    /\ evaluated' = IF IconScanRuns THEN Append(evaluated, "icons")
                    ELSE evaluated
    /\ IF IconScanRuns
       THEN \E ok \in BOOLEAN :
               IF ok
               THEN \E r \in {IconResult(doc)} :
                       /\ iconSocialInfo' = [EmptyRecord EXCEPT
                              !.twitter = r.twitter, !.linkedin = r.linkedin]
                       /\ twitter' = FillIfEmpty(twitter,
                              extractSocialHandle(r.twitter, TwitterDomains))
                       /\ linkedin' = FillIfEmpty(linkedin, r.linkedin)
                       /\ ppc' = "js"
               ELSE /\ ppc' = "failed"
                    /\ UNCHANGED <<iconSocialInfo, twitter, linkedin>>
       ELSE /\ ppc' = "js"
            /\ UNCHANGED <<iconSocialInfo, twitter, linkedin>>
    /\ UNCHANGED <<doc, linkIdx, email, website, emailStage, jsContactInfo,
                   domContactInfo>>
    /\ UNCHANGED <<callVars, handleVars, cronVars>>

\* lines 553-617: the JavaScript-context scan
JsScan ==
    /\ ppc = "js"
    /\ evaluated' = IF JsScanRuns THEN Append(evaluated, "js") ELSE evaluated
    /\ IF JsScanRuns
       THEN \E ok \in BOOLEAN :
               IF ok
               THEN \E r \in JsResults :
                       /\ jsContactInfo' = r
                       /\ email' = FillIfEmpty(email, r.email)
                       /\ emailStage' = StageAfter(r.email, "js")
                       /\ twitter' = FillIfEmpty(twitter,
                              extractSocialHandle(r.twitter, TwitterDomains))
                       /\ linkedin' = FillIfEmpty(linkedin, r.linkedin)
                       /\ website' = FillIfEmpty(website, r.website)
                       /\ ppc' = "dom"
               ELSE /\ ppc' = "failed"
                    /\ UNCHANGED <<jsContactInfo, email, emailStage, twitter,
                                   linkedin, website>>
       ELSE /\ ppc' = "dom"
            /\ UNCHANGED <<jsContactInfo, email, emailStage, twitter, linkedin,
                           website>>
    /\ UNCHANGED <<doc, linkIdx, iconSocialInfo, domContactInfo>>
    /\ UNCHANGED <<callVars, handleVars, cronVars>>

\* lines 620-678: the script and list-item scan
DomScan ==
    /\ ppc = "dom"
    /\ evaluated' = IF DomScanRuns THEN Append(evaluated, "dom") ELSE evaluated
    /\ IF DomScanRuns
       THEN \E ok \in BOOLEAN :
               IF ok
               THEN \E r \in DomResults :
                       /\ domContactInfo' = [EmptyRecord EXCEPT
                              !.email = r.email, !.twitter = r.twitter,
                              !.linkedin = r.linkedin]
                       /\ email' = FillIfEmpty(email, r.email)
                       /\ emailStage' = StageAfter(r.email, "dom")
                       /\ twitter' = FillIfEmpty(twitter,
                              extractSocialHandle(r.twitter, TwitterDomains))
                       /\ linkedin' = FillIfEmpty(linkedin, r.linkedin)
                       /\ ppc' = "guess"
               ELSE /\ ppc' = "failed"
                    /\ UNCHANGED <<domContactInfo, email, emailStage, twitter,
                                   linkedin>>
       ELSE /\ ppc' = "guess"
            /\ UNCHANGED <<domContactInfo, email, emailStage, twitter, linkedin>>
    /\ UNCHANGED <<doc, linkIdx, website, iconSocialInfo, jsContactInfo>>
    /\ UNCHANGED <<callVars, handleVars, cronVars>>

\* lines 681-710: the domain guess, its own errors caught, and the return
DomainGuess ==
    /\ ppc = "guess"
    /\ evaluated' = IF DomainGuessRuns /\ UrlParses(doc.url)
                    THEN Append(evaluated, "innerText") ELSE evaluated
    /\ IF DomainGuessRuns /\ UrlParses(doc.url)
       THEN \E ok \in BOOLEAN :
               IF ok
               THEN \E t \in InnerTexts :
                       /\ email' = FillIfEmpty(email, GuessEmail(doc.url, t))
                       /\ emailStage' = StageAfter(GuessEmail(doc.url, t), "guess")
               ELSE UNCHANGED <<email, emailStage>>
       ELSE UNCHANGED <<email, emailStage>>
    /\ ppc' = "done"
    /\ UNCHANGED <<doc, linkIdx, twitter, linkedin, website, iconSocialInfo,
                   jsContactInfo, domContactInfo>>
    /\ UNCHANGED <<callVars, handleVars, cronVars>>

NextPass ==
    \/ LoadContent
    \/ ProcessLink
    \/ TextScan
    \/ ContactProbe
    \/ IconScan
    \/ JsScan
    \/ DomScan
    \/ DomainGuess

----------------------------------------------------------------------------
(* cron-scraper.js: the daily job (src/cron-scraper.js and the later       *)
(* version of the same script in src/unnamed/part_002)                     *)

\* the two versions of the script
Scripts == {"cron-scraper.js", "part_002"}

Digits == "0123456789"

RECURSIVE DigitRun(_, _)
\* length of the run of digits of s that starts at position i (regex \d+)
DigitRun(s, i) ==
    IF i <= Len(s) /\ IndexOf(Digits, SubSeq(s, i, i)) > 0
    THEN 1 + DigitRun(s, i + 1)
    ELSE 0

RECURSIVE parseInt(_)
\* parseInt of a string of digits
parseInt(s) ==
    IF Len(s) = 0 THEN 0
    ELSE parseInt(SubSeq(s, 1, Len(s) - 1)) * 10
         + (IndexOf(Digits, SubSeq(s, Len(s), Len(s))) - 1)

RECURSIVE NumberToString(_)
\* `${n}` for a natural number: decimal, no leading zeros
NumberToString(n) ==
    IF n < 10 THEN SubSeq(Digits, n + 1, n + 1)
    ELSE NumberToString(n \div 10) \o SubSeq(Digits, (n % 10) + 1, (n % 10) + 1)

DaysInMonth(y, m) ==
    IF m = 2
    THEN (IF (y % 4 = 0 /\ y % 100 # 0) \/ y % 400 = 0 THEN 29 ELSE 28)
    ELSE IF m \in {4, 6, 9, 11} THEN 30 ELSE 31

RECURSIVE NewDate(_, _, _)
\* new Date(y, m - 1, d) for m >= 1, d >= 1: a month past December and a
\* day past the end of the month carry over
NewDate(y, m, d) ==
    IF m > 12 THEN NewDate(y + 1, m - 12, d)
    ELSE IF d > DaysInMonth(y, m) THEN NewDate(y, m + 1, d - DaysInMonth(y, m))
    ELSE [y |-> y, m |-> m, d |-> d]

UrlPrefix == "TARGET_URL=https://www.producthunt.com/leaderboard/daily/"

\* the line `TARGET_URL=https://www.producthunt.com/leaderboard/daily/y/m/d/all`
TargetUrlLine(dt) ==
    UrlPrefix \o NumberToString(dt.y) \o "/" \o NumberToString(dt.m) \o "/"
              \o NumberToString(dt.d) \o "/all"

\* the regular expression TARGET_URL=https:...daily/(\d+)/(\d+)/(\d+)/all on
\* one line, tried at the first occurrence of its literal prefix: whether
\* it matches, where, and the three groups
MatchLine(l) ==
    LET p  == IndexOf(l, UrlPrefix)
        a  == p + Len(UrlPrefix)
        n1 == DigitRun(l, a)
        b  == a + n1 + 1
        n2 == DigitRun(l, b)
        c  == b + n2 + 1
        n3 == DigitRun(l, c)
        e  == c + n3
    IN  [ found |-> /\ p > 0
                    /\ n1 > 0 /\ SubSeq(l, b - 1, b - 1) = "/"
                    /\ n2 > 0 /\ SubSeq(l, c - 1, c - 1) = "/"
                    /\ n3 > 0 /\ SubSeq(l, e, e + 3) = "/all",
          from  |-> p,
          to    |-> e + 3,
          year  |-> SubSeq(l, a, a + n1 - 1),
          month |-> SubSeq(l, b, b + n2 - 1),
          day   |-> SubSeq(l, c, c + n3 - 1) ]

\* envContent.match(...): the index of the first line of the file that
\* matches, 0 when none does
targetUrlMatch(lines) ==
    IF \E i \in 1..Len(lines) : MatchLine(lines[i]).found
    THEN CHOOSE i \in 1..Len(lines) :
            /\ MatchLine(lines[i]).found
            /\ \A j \in 1..(i - 1) : ~MatchLine(lines[j]).found
    ELSE 0

\* envContent.replace(..., newTargetUrl): the first match is replaced
ReplaceTargetUrl(lines, i, newLine) ==
    LET mt == MatchLine(lines[i])
    IN  [lines EXCEPT ![i] = SubSeq(lines[i], 1, mt.from - 1) \o newLine
                             \o SubSeq(lines[i], mt.to + 1, Len(lines[i]))]

\* the date of the URL matched on line i
UrlDate(lines, i) ==
    LET mt == MatchLine(lines[i])
    IN  NewDate(parseInt(mt.year), parseInt(mt.month), parseInt(mt.day))

\* what updateTargetUrl computes before it writes: whether it goes on to
\* write, the new contents and the new TARGET_URL line
NoUpdate == [ok |-> FALSE, lines |-> <<>>, url |-> ""]

\* src/cron-scraper.js: the date of the URL plus one day
\* (currentDate.setDate(currentDate.getDate() + 1))
updateTargetUrl(file) ==
    IF ~file.exists THEN NoUpdate
    ELSE LET i == targetUrlMatch(file.lines)
         IN  IF i = 0 THEN NoUpdate
             ELSE LET currentDate == UrlDate(file.lines, i)
                      url == TargetUrlLine(NewDate(currentDate.y, currentDate.m,
                                                   currentDate.d + 1))
                  IN  [ok |-> TRUE, url |-> url,
                       lines |-> ReplaceTargetUrl(file.lines, i, url)]

\* src/unnamed/part_002: today, or the date of the URL when it is later
updateTargetUrl2(file, today) ==
    IF ~file.exists THEN NoUpdate
    ELSE LET i == targetUrlMatch(file.lines)
         IN  IF i = 0
             THEN [ok |-> TRUE, url |-> TargetUrlLine(today),
                   lines |-> Append(file.lines, TargetUrlLine(today))]
             ELSE LET urlDate == UrlDate(file.lines, i)
                      \* urlDate.getTime() <= today.getTime()
                      notLater ==
                          \/ urlDate.y < today.y
                          \/ urlDate.y = today.y /\ urlDate.m < today.m
                          \/ /\ urlDate.y = today.y /\ urlDate.m = today.m
                             /\ urlDate.d <= today.d
                      targetDate == IF notLater THEN today ELSE urlDate
                      url == TargetUrlLine(targetDate)
                  IN  [ok |-> TRUE, url |-> url,
                       lines |-> ReplaceTargetUrl(file.lines, i, url)]

\* dotenv: the value of a line KEY=VALUE
LineValue(l) == SubSeq(l, IndexOf(l, "=") + 1, Len(l))

\* dotenv.parse: the keys of the lines KEY=VALUE that are no comments, each
\* with the value of its last line
dotenvParse(lines) ==
    LET key(l) == SubSeq(l, 1, IndexOf(l, "=") - 1)
        assigned == {i \in 1..Len(lines) :
                        IndexOf(lines[i], "=") > 1 /\ ~StartsWith(lines[i], "#")}
        last(k) == CHOOSE i \in assigned :
                      /\ key(lines[i]) = k
                      /\ \A j \in assigned : key(lines[j]) = k => j <= i
    IN  [k \in {key(lines[i]) : i \in assigned} |-> LineValue(lines[last(k)])]

\* dotenv.config(): the variables of .env enter process.env, except those
\* process.env already defines (no override option is passed); a missing
\* file changes nothing
dotenvConfig(env, file) ==
    IF ~file.exists THEN env
    ELSE LET parsed == dotenvParse(file.lines)
         IN  [k \in (DOMAIN env) \cup (DOMAIN parsed) |->
                 IF k \in DOMAIN env THEN env[k] ELSE parsed[k]]

\* `${process.env.NAME}`
EnvText(env, name) == IF name \in DOMAIN env THEN env[name] ELSE "undefined"

\* if (process.env.NAME)
EnvTruthy(env, name) == name \in DOMAIN env /\ env[name] # ""

RECURSIVE LatestFrom(_, _, _, _)
LatestFrom(files, i, latestTime, latest) ==
    IF i > Len(files) THEN latest
    ELSE IF /\ StartsWith(files[i].name, "product_hunt_data_")
            /\ EndsWith(files[i].name, ".csv")
            /\ files[i].mtime > latestTime
         THEN LatestFrom(files, i + 1, files[i].mtime, files[i].name)
         ELSE LatestFrom(files, i + 1, latestTime, latest)

\* findLatestCSV(directory): "" stands for null
findLatestCSV(files) == LatestFrom(files, 1, 0, "")

\* the environment pm2 starts the script with (ecosystem.config.js)
PmEnv == ("NODE_ENV" :> "production") @@ ("HEADLESS" :> "true")

\* dates found in the TARGET_URL of .env, and the dates of the run
UrlDates ==
    { [y |-> 2025, m |-> 3, d |-> 17], [y |-> 2025, m |-> 2, d |-> 28],
      [y |-> 2024, m |-> 2, d |-> 28], [y |-> 2025, m |-> 12, d |-> 31] }

Todays == { [y |-> 2025, m |-> 3, d |-> 17], [y |-> 2025, m |-> 3, d |-> 18] }

NoFile == [exists |-> FALSE, lines |-> <<>>]

\* the .env files of a run: none, or one with or without a TARGET_URL line
\* and with or without a GOOGLE_SHEET_ID line
EnvFiles ==
    {NoFile} \cup
    { [exists |-> TRUE, lines |-> <<"MAX_PRODUCTS=300">> \o t \o s] :
        t \in {<<>>, <<"TARGET_URL=https://www.producthunt.com/">>}
              \cup {<<TargetUrlLine(dt)>> : dt \in UrlDates},
        s \in {<<>>, <<"GOOGLE_SHEET_ID=sheet-1">>} }

\* the script's directory before the run, in readdir order
Directories ==
    { <<>>,
      << [name |-> "notes.csv", mtime |-> 9],
         [name |-> "product_hunt_data_old.txt", mtime |-> 8] >>,
      << [name |-> "product_hunt_data_2025-03-16.csv", mtime |-> 2],
         [name |-> "product_hunt_data_2025-03-15.csv", mtime |-> 1],
         [name |-> "notes.csv", mtime |-> 9] >> }

\* no cron run is in progress
CronIdle ==
    /\ cpc = "idle"
    /\ script = ""
    /\ envFile = NoFile
    /\ procEnv = PmEnv
    /\ now = [y |-> 0, m |-> 0, d |-> 0]
    /\ dirFiles = <<>>
    /\ updated = FALSE
    /\ newTargetUrl = ""
    /\ logged = ""
    /\ childTargetUrl = ""
    /\ latestCsvFile = ""
    /\ scraperStatus = ""
    /\ steps = <<>>
    /\ exitCode = ""

\* pm2 starts the script
InitCron ==
    /\ cpc = "load"
    /\ script \in Scripts
    /\ envFile \in EnvFiles
    /\ procEnv = PmEnv
    /\ now \in Todays
    /\ dirFiles \in Directories
    /\ updated = FALSE
    /\ newTargetUrl = ""
    /\ logged = ""
    /\ childTargetUrl = ""
    /\ latestCsvFile = ""
    /\ scraperStatus = ""
    /\ steps = <<>>
    /\ exitCode = ""

\* line 12: dotenv.config() when the module is loaded
LoadEnv ==
    /\ cpc = "load"
    /\ procEnv' = dotenvConfig(procEnv, envFile)
    /\ cpc' = "update"
    /\ UNCHANGED <<script, envFile, now, dirFiles, updated, newTargetUrl,
                   logged, childTargetUrl, latestCsvFile, scraperStatus,
                   steps, exitCode>>
    /\ UNCHANGED <<callVars, passVars, handleVars>>

\* line 89: const updated = updateTargetUrl(); a failed read or write is
\* caught and makes it return false
UpdateTargetUrl ==
    /\ cpc = "update"
    /\ \E writeOk \in BOOLEAN :
       \E r \in {IF script = "cron-scraper.js" THEN updateTargetUrl(envFile)
                 ELSE updateTargetUrl2(envFile, now)} :
          IF r.ok /\ writeOk
          THEN /\ envFile' = [envFile EXCEPT !.lines = r.lines]
               /\ newTargetUrl' = r.url
               /\ updated' = TRUE
          ELSE /\ UNCHANGED <<envFile, newTargetUrl>>
               /\ updated' = FALSE
    /\ steps' = Append(steps, "update")
    /\ cpc' = "checkUpdated"
    /\ UNCHANGED <<script, procEnv, now, dirFiles, logged, childTargetUrl,
                   latestCsvFile, scraperStatus, exitCode>>
    /\ UNCHANGED <<callVars, passVars, handleVars>>

\* lines 91-94 with the guard left out
CheckUpdatedProceeds ==
    /\ cpc = "checkUpdated"
    /\ cpc' = IF script = "part_002" THEN "reload" ELSE "announce"
    /\ UNCHANGED exitCode
    /\ UNCHANGED <<script, envFile, procEnv, now, dirFiles, updated,
                   newTargetUrl, logged, childTargetUrl, latestCsvFile,
                   scraperStatus, steps>>
    /\ UNCHANGED <<callVars, passVars, handleVars>>

\* lines 91-94: if (!updated) process.exit(1)
CheckUpdated ==
    /\ cpc = "checkUpdated"
    /\ IF updated
       THEN /\ cpc' = IF script = "part_002" THEN "reload" ELSE "announce"
            /\ UNCHANGED exitCode
       ELSE /\ cpc' = "exited"
            /\ exitCode' = "1"
    /\ UNCHANGED <<script, envFile, procEnv, now, dirFiles, updated,
                   newTargetUrl, logged, childTargetUrl, latestCsvFile,
                   scraperStatus, steps>>
    /\ UNCHANGED <<callVars, passVars, handleVars>>

\* part_002 line 245: dotenv.config() again after the update
ReloadEnv ==
    /\ cpc = "reload"
    /\ procEnv' = dotenvConfig(procEnv, envFile)
    /\ cpc' = "announce"
    /\ UNCHANGED <<script, envFile, now, dirFiles, updated, newTargetUrl,
                   logged, childTargetUrl, latestCsvFile, scraperStatus,
                   steps, exitCode>>
    /\ UNCHANGED <<callVars, passVars, handleVars>>

\* line 97 / part_002 line 248: the log line before the launch
Announce ==
    /\ cpc = "announce"
    /\ logged' = IF script = "part_002"
                 THEN "Running main scraper with TARGET_URL: "
                      \o EnvText(procEnv, "TARGET_URL")
                 ELSE "Running main scraper..."
    /\ cpc' = "launch"
    /\ UNCHANGED <<script, envFile, procEnv, now, dirFiles, updated,
                   newTargetUrl, childTargetUrl, latestCsvFile,
                   scraperStatus, steps, exitCode>>
    /\ UNCHANGED <<callVars, passVars, handleVars>>

\* line 99: execSync('node index.js'): the child inherits process.env; it
\* ends with status 0, with or without a new CSV file, or execSync throws
RunScraper ==
    /\ cpc = "launch"
    /\ childTargetUrl' = EnvText(procEnv, "TARGET_URL")
    /\ steps' = Append(steps, "scraper")
    /\ \E ok \in BOOLEAN, wrote \in BOOLEAN :
          /\ scraperStatus' = IF ok THEN "finished" ELSE "failed"
          /\ dirFiles' =
                IF wrote
                THEN Append(dirFiles,
                            [name |-> "product_hunt_data_2025-03-18.csv",
                             mtime |-> 10])
                ELSE dirFiles
          /\ cpc' = IF ok THEN "sheetCheck" ELSE "catch"
    /\ UNCHANGED <<script, envFile, procEnv, now, updated, newTargetUrl,
                   logged, latestCsvFile, exitCode>>
    /\ UNCHANGED <<callVars, passVars, handleVars>>

\* lines 103, 115-117: if (process.env.GOOGLE_SHEET_ID)
CheckSheetId ==
    /\ cpc = "sheetCheck"
    /\ cpc' = IF EnvTruthy(procEnv, "GOOGLE_SHEET_ID") THEN "findCsv"
              ELSE "finish"
    /\ UNCHANGED <<script, envFile, procEnv, now, dirFiles, updated,
                   newTargetUrl, logged, childTargetUrl, latestCsvFile,
                   scraperStatus, steps, exitCode>>
    /\ UNCHANGED <<callVars, passVars, handleVars>>

\* lines 107-114: findLatestCSV(__dirname) and the test of its result
FindCsv ==
    /\ cpc = "findCsv"
    /\ latestCsvFile' = findLatestCSV(dirFiles)
    /\ cpc' = IF findLatestCSV(dirFiles) # "" THEN "upload" ELSE "finish"
    /\ UNCHANGED <<script, envFile, procEnv, now, dirFiles, updated,
                   newTargetUrl, logged, childTargetUrl, scraperStatus,
                   steps, exitCode>>
    /\ UNCHANGED <<callVars, passVars, handleVars>>

\* line 111: await uploadCSVToGoogleSheets(latestCsvFile); a rejection goes
\* to the outer catch, in part_002 (lines 262-268) to a catch of its own
Upload ==
    /\ cpc = "upload"
    /\ steps' = Append(steps, "export")
    /\ \E ok \in BOOLEAN :
          cpc' = IF ok \/ script = "part_002" THEN "finish" ELSE "catch"
    /\ UNCHANGED <<script, envFile, procEnv, now, dirFiles, updated,
                   newTargetUrl, logged, childTargetUrl, latestCsvFile,
                   scraperStatus, exitCode>>
    /\ UNCHANGED <<callVars, passVars, handleVars>>

\* lines 118-121: catch (error) { ... process.exit(1) }
CatchExit ==
    /\ cpc = "catch"
    /\ exitCode' = "1"
    /\ cpc' = "exited"
    /\ UNCHANGED <<script, envFile, procEnv, now, dirFiles, updated,
                   newTargetUrl, logged, childTargetUrl, latestCsvFile,
                   scraperStatus, steps>>
    /\ UNCHANGED <<callVars, passVars, handleVars>>

\* main returns and the process ends with status 0
Finish ==
    /\ cpc = "finish"
    /\ exitCode' = "0"
    /\ cpc' = "exited"
    /\ UNCHANGED <<script, envFile, procEnv, now, dirFiles, updated,
                   newTargetUrl, logged, childTargetUrl, latestCsvFile,
                   scraperStatus, steps>>
    /\ UNCHANGED <<callVars, passVars, handleVars>>

NextCron ==
    \/ LoadEnv
    \/ UpdateTargetUrl
    \/ CheckUpdated
    \/ ReloadEnv
    \/ Announce
    \/ RunScraper
    \/ CheckSheetId
    \/ FindCsv
    \/ Upload
    \/ CatchExit
    \/ Finish

----------------------------------------------------------------------------
(* specifications                                                          *)

Init == InitCall /\ PassIdle /\ HandleIdle /\ CronIdle

Next == NextCall

\* one call of extractWebsiteContactInfo
Spec == Init /\ [][Next]_vars

PassInit == CallIdle /\ InitPass /\ HandleIdle /\ CronIdle

\* one call of extractContactInfoFromPage
SpecPass == PassInit /\ [][NextPass]_vars

TextInit == CallIdle /\ InitText /\ HandleIdle /\ CronIdle

NextText == TextScan

\* the body-text scan on its own
SpecText == TextInit /\ [][NextText]_vars

HandleInit == CallIdle /\ PassIdle /\ InitHandle /\ CronIdle

NextHandle == CallExtractSocialHandle

\* one call of extractSocialHandle
SpecHandle == HandleInit /\ [][NextHandle]_vars

CronInit == CallIdle /\ PassIdle /\ HandleIdle /\ InitCron

\* one run of the daily job
SpecCron == CronInit /\ [][NextCron]_vars


----------------------------------------------------------------------------
(* Claims about extractWebsiteContactInfo (specification Spec)             *)

\* the navigation attempts issued so far
NavAttempts == Count(trace, "goto")

\* the retry pauses started so far
RetryPauses == Count(trace, "delay")

\* the call has ended
Ended == pc = "done"

\* C1: for every URL that passes validation, whatever browser operation
\* fails, the call returns a record and never rejects outward.
C1_NeverRejects ==
    (Ended /\ ~InputRejected(websiteUrl)) => outcome = "returned"

\* C2: no ended call leaves the page it opened open.
C2_PageClosed == Ended => ~pageOpen

\* the argument is missing or is no valid absolute URL
MissingOrMalformed(w) == ~w.given \/ ~isValidUrl(w.text)

\* C3: for a missing or malformed URL the call returns the all-empty record
\* at once: no page is opened and no browser operation is issued.
C3_InvalidInputFailsFast ==
    (MissingOrMalformed(websiteUrl) /\ pc # "start") =>
        /\ Ended
        /\ outcome = "returned"
        /\ result = EmptyRecord
        /\ trace = <<>>
        /\ ~pageOpen

\* C3 witness: a malformed, non-empty URL was rejected.
C3_Witness ==
    /\ Ended
    /\ websiteUrl.given /\ websiteUrl.text # ""
    /\ ~isValidUrl(websiteUrl.text)
    /\ result = EmptyRecord

\* C4: when every navigation attempt failed, exactly 3 attempts were issued
\* and the call returned the all-empty record without an unhandled error;
\* and no attempt is ever issued after one succeeded.
C4_ThreeAttemptsThenEmpty ==
    /\ (Ended /\ NavAttempts > 0 /\ ~navigationSuccessful) =>
           /\ NavAttempts = 3
           /\ outcome = "returned"
           /\ result = EmptyRecord
    /\ navigationSuccessful => NavAttempts = retryCount + 1

\* C5: once the outer timer has fired while attempt 1 or 2 was in flight, no
\* further navigation attempt and no retry pause is started, and a record
\* returned is the all-empty one.
C5_TimerStopsRetries ==
    firedInAttempt \in {1, 2} =>
        /\ NavAttempts = firedInAttempt
        /\ RetryPauses = firedInAttempt - 1
        /\ (Ended /\ outcome = "returned") => result = EmptyRecord

\* the only operations that failed, if any, are detection screenshots
OnlyDetectionScreenshotsFailed ==
    /\ failedOp \in {"", "screenshotCaptcha", "screenshotBlocked"}
    /\ outcome = "returned"

\* C6: after a successful load, a detected challenge or block never aborts
\* extraction: both passes run and their merge is returned, also when the
\* screenshot that the detection triggers fails.
C6_DetectionNeverAborts ==
    (Ended /\ (isCaptchaPresent \/ isBlocked) /\ OnlyDetectionScreenshotsFailed) =>
        /\ initialContactInfo # NoRecord
        /\ footerContactInfo # NoRecord
        /\ result = Merge(initialContactInfo, footerContactInfo)

FieldNames == {"email", "twitter", "linkedin", "website"}

\* C7: each field of the returned record is the post-scroll value if that is
\* non-empty, otherwise the initial value, independently per field.
C7_MergePerField ==
    (Ended /\ outcome = "returned" /\ footerContactInfo # NoRecord) =>
        \A f \in FieldNames :
            result[f] = IF footerContactInfo[f] # "" THEN footerContactInfo[f]
                        ELSE initialContactInfo[f]

\* C7 witness: both passes found different emails and the post-scroll one was
\* returned, while the contact page only the initial pass found was kept.
C7_Witness ==
    /\ Ended /\ outcome = "returned"
    /\ initialContactInfo.email = "a" /\ footerContactInfo.email = "b"
    /\ result.email = "b"
    /\ initialContactInfo.website = "a" /\ footerContactInfo.website = ""
    /\ result.website = "a"

\* the operation issued last ("" before the first)
LastOp == IF trace = <<>> THEN "" ELSE trace[Len(trace)]

\* the operations issued after the last navigation attempt
SinceLastGoto ==
    LET gotos == {i \in 1..Len(trace) : trace[i] = "goto"}
    IN  IF gotos = {} THEN trace
        ELSE SubSeq(trace, (CHOOSE i \in gotos : \A j \in gotos : i >= j) + 1,
                    Len(trace))

NotScreenshot(op) == op \notin {"screenshotCaptcha", "screenshotBlocked"}

\* both passes of the call ran to completion
BothPassesRan == initialContactInfo # NoRecord /\ footerContactInfo # NoRecord

\* the step issues operation op
Issues(op) == trace' = Append(trace, op)

\* C19: in every successful call the steps occur in this order, one at a
\* time: a navigation attempt succeeds, the challenge and block checks run,
\* the initial pass runs to completion, the page is scrolled, the post-scroll
\* pass runs to completion, the results are merged, the page is closed.  The
\* post-scroll pass never starts before the initial pass has finished and the
\* scroll has been issued.
C19_StepsInOrder ==
    /\ []( (Ended /\ BothPassesRan) =>
             SelectSeq(SinceLastGoto, NotScreenshot) =
                 <<"evaluateCaptcha", "evaluateBlocked", "initialPass",
                   "scroll", "footerPass", "close">> )
    /\ [][ /\ Issues("evaluateCaptcha") =>
                 (navigationSuccessful /\ LastOp = "goto")
           /\ Issues("initialPass") =>
                 LastOp \in {"evaluateBlocked", "screenshotBlocked"}
           /\ Issues("scroll") =>
                 (LastOp = "initialPass" /\ initialContactInfo # NoRecord)
           /\ Issues("footerPass") =>
                 (LastOp = "scroll" /\ initialContactInfo # NoRecord
                    /\ footerContactInfo = NoRecord)
           /\ (pc = "merge" /\ pc' # pc) =>
                 (LastOp = "footerPass" /\ BothPassesRan /\ pageOpen)
           /\ (Issues("close") /\ BothPassesRan) =>
                 (LastOp = "footerPass" /\ pending = "return"
                    /\ result = [f \in FieldNames |->
                          IF footerContactInfo[f] # "" THEN footerContactInfo[f]
                          ELSE initialContactInfo[f]])
         ]_vars

\* C19 witness: a call ended after both passes, with a challenge detected and
\* its screenshot taken in between.
C19_Witness ==
    /\ Ended /\ outcome = "returned"
    /\ BothPassesRan
    /\ isCaptchaPresent
    /\ Count(trace, "screenshotCaptcha") = 1
    /\ LastOp = "close"

\* C20: if the scroll or the post-scroll pass fails, the call returns the
\* all-empty record, whatever the initial pass found; a returned record is
\* either the merge of two completed passes or all-empty.
C20_LateFailureReturnsEmpty ==
    /\ (Ended /\ failedOp \in {"scroll", "footerPass"}) =>
           (outcome = "returned" /\ result = EmptyRecord)
    /\ (Ended /\ outcome = "returned") =>
           \/ result = EmptyRecord
           \/ BothPassesRan /\ result = Merge(initialContactInfo, footerContactInfo)

\* the error the outer catch received was raised by one of the two timers
CausedByTimeout == error \in {NavTimeoutMsg, TimedOutMsg}

\* C21: a failure caused by a timeout is classified as error kind 'timeout'
\* whichever timer produced it, the 45-second navigation timeout of an
\* attempt or the outer 60-second timer, and never as 'unknown'.
C21_TimeoutKind ==
    (errorType # "" /\ CausedByTimeout) => errorType = "timeout"

----------------------------------------------------------------------------
(* Claims about extractContactInfoFromPage (SpecPass, SpecText)            *)

\* C8: within one pass a field that holds a non-empty value is never changed
\* by a later anchor or a later stage.
C8_NoOverwrite ==
    [][ /\ (email # "" => email' = email)
        /\ (twitter # "" => twitter' = twitter)
        /\ (linkedin # "" => linkedin' = linkedin)
        /\ (website # "" => website' = website) ]_vars

\* C8 witness: the link stage set the email, the script scan later found
\* another address, and the pass ended with the first one.
C8_Witness ==
    /\ ppc = "done"
    /\ emailStage = "mailto"
    /\ domContactInfo.email # ""
    /\ domContactInfo.email # email

\* C9: the email a pass returns never matches the deny-list of placeholder
\* domains and local-parts, whichever stage produced it.
C9_NoPlaceholderEmail ==
    (ppc = "done" /\ email # "") => PassesDenyList(email)

\* the domain of an address
DomainOf(e) == ToLowerCase(SplitLast(e, "@"))

\* the address is at a free consumer mail provider
AtConsumerProvider(e) == DomainOf(e) \in ConsumerList

\* C10: in the body-text scan, when some deny-list survivor is not at a
\* consumer provider the selected address is not at one either; an address at
\* a consumer provider is selected only when every survivor is at one.
C10_BusinessPreferred ==
    (ppc = "contactEl" /\ emailStage \in {"", "text"}) =>
        LET survivors == SelectSeq(doc.bodyEmails, PassesDenyList)
            someBusiness ==
                \E i \in 1..Len(survivors) : ~AtConsumerProvider(survivors[i])
        IN  /\ someBusiness => (email # "" /\ ~AtConsumerProvider(email))
            /\ (email # "" /\ AtConsumerProvider(email)) => ~someBusiness

\* the role local-parts, highest priority first
RoleOrder == <<"contact", "info", "hello", "support", "help">>

\* rank of the role local-part of an address (1: highest; 0: no role)
RoleRank(e) ==
    LET local == ToLowerCase(SplitFirst(e, "@"))
    IN  IF \E k \in 1..Len(RoleOrder) : RoleOrder[k] = local
        THEN CHOOSE k \in 1..Len(RoleOrder) : RoleOrder[k] = local
        ELSE 0

NotAtConsumerProvider(e) == ~AtConsumerProvider(e)

\* the deny-list survivors that are not at a consumer provider, in scan order
NonConsumerSurvivors ==
    SelectSeq(SelectSeq(doc.bodyEmails, PassesDenyList), NotAtConsumerProvider)

\* the consumer test of the scan agrees with the domain of every address
ConsumerTestExact ==
    \A i \in 1..Len(doc.bodyEmails) :
        IsBusiness(doc.bodyEmails[i]) <=> ~AtConsumerProvider(doc.bodyEmails[i])

\* C11: in the body-text scan, among the non-consumer survivors the selected
\* address has the role local-part that ranks highest in the order contact,
\* info, hello, support, help, wherever the addresses stand in the page; only
\* when no survivor has a role local-part is the first survivor selected.
\* (Stated for pages on which the consumer test is exact, so that the
\* substring test of C10 plays no part.)
C11_RoleRankDecides ==
    (ppc = "contactEl" /\ emailStage \in {"", "text"}
        /\ ConsumerTestExact /\ NonConsumerSurvivors # <<>>) =>
        LET s == NonConsumerSurvivors
            ranked == {i \in 1..Len(s) : RoleRank(s[i]) > 0}
        IN  IF ranked = {} THEN email = s[1]
            ELSE /\ RoleRank(email) > 0
                 /\ \A i \in ranked : RoleRank(email) <= RoleRank(s[i])

----------------------------------------------------------------------------
(* Claims about the link stage                                             *)

\* the text of an href after its scheme prefix
AfterScheme(href, scheme) == SubSeq(href, Len(scheme) + 1, Len(href))

\* the positions of character ch in s
Positions(s, ch) == {i \in 1..Len(s) : SubSeq(s, i, i) = ch}

\* s up to, not including, its first ch
Before(s, ch) ==
    IF Positions(s, ch) = {} THEN s
    ELSE SubSeq(s, 1, (CHOOSE i \in Positions(s, ch) :
                          \A j \in Positions(s, ch) : i <= j) - 1)

\* s up to, not including, its first '?'
BeforeQuery(s) == Before(s, "?")

\* C12: whenever the email of a pass is taken from an anchor whose href begins
\* with mailto:, it equals that href with the scheme removed and cut at the
\* first '?', and so never contains the query suffix.
C12_MailtoQueryStripped ==
    emailStage = "mailto" =>
        /\ \E i \in 1..Len(doc.anchors) :
              /\ StartsWith(doc.anchors[i].href, "mailto:")
              /\ email = BeforeQuery(AfterScheme(doc.anchors[i].href, "mailto:"))
        /\ \A i \in 1..Len(email) : SubSeq(email, i, i) # "?"

\* C12 witness: a pass ended with the address of a mailto link that carries a
\* query suffix.
C12_Witness ==
    /\ ppc = "done"
    /\ emailStage = "mailto"
    /\ \E i \in 1..Len(doc.anchors) :
          doc.anchors[i].href = "mailto:" \o email \o "?subject=hi"

\* the anchor lies in an element that a contact-region selector matches
InRegion(a) == a.sels # {}

\* the anchors nested in matching regions, in document order
RegionAnchors == SelectSeq(doc.anchors, InRegion)

\* the anchors the loop over socialLinks has processed so far
ProcessedAnchors == SubSeq(SocialLinks(doc), 1, linkIdx - 1)

\* the link stage is over
LinksDone == ppc \notin {"idle", "content", "links", "failed"}

\* C13: when at least one contact region contains an anchor, the anchors the
\* link stage processes are the anchors nested in matching regions, each
\* exactly once and in document order, also when an anchor lies in several
\* matching regions.
C13_RegionAnchorsOnceInOrder ==
    (LinksDone /\ RegionAnchors # <<>>) => ProcessedAnchors = RegionAnchors

\* C14 as claimed: every anchor of the document is processed if zero
\* contact-region selectors match; if at least one matches, only anchors
\* nested in matching regions are processed.
C14_FallbackOnZeroRegions ==
    LinksDone =>
        IF doc.regions = {} THEN ProcessedAnchors = doc.anchors
        ELSE \A i \in 1..Len(ProcessedAnchors) : InRegion(ProcessedAnchors[i])

\* C14: every anchor of the document is processed if no anchor is nested in
\* a matching region (in particular if zero selectors match); otherwise only
\* anchors nested in matching regions are processed.
C14_FallbackOnZeroRegionAnchors ==
    LinksDone =>
        IF RegionAnchors = <<>> THEN ProcessedAnchors = doc.anchors
        ELSE /\ ProcessedAnchors # <<>>
             /\ \A i \in 1..Len(ProcessedAnchors) : InRegion(ProcessedAnchors[i])

\* C14 witness: a region matched but held no anchor, and the anchors outside
\* it were processed.
C14_Witness ==
    /\ LinksDone
    /\ doc.regions # {}
    /\ RegionAnchors = <<>>
    /\ ProcessedAnchors = doc.anchors
    /\ doc.anchors # <<>>

----------------------------------------------------------------------------
(* Claims about extractSocialHandle (specification SpecHandle)             *)

\* u without query string, fragment and one trailing slash
WithoutQueryFragmentSlash(u) ==
    LET a == Before(Before(u, "?"), "#")
    IN  IF Len(a) > 0 /\ SubSeq(a, Len(a), Len(a)) = "/"
        THEN SubSeq(a, 1, Len(a) - 1) ELSE a

\* the text of s after its last '/'
FinalSegment(s) ==
    IF Positions(s, "/") = {} THEN s
    ELSE SubSeq(s, (CHOOSE i \in Positions(s, "/") :
                       \A j \in Positions(s, "/") : i >= j) + 1, Len(s))

\* the final path segment is usable as a handle
SegmentIsHandle(u, domains) ==
    LET seg == FinalSegment(WithoutQueryFragmentSlash(u))
    IN  /\ \E d \in domains : Includes(u, d)
        /\ seg # ""
        /\ Positions(seg, ".") = {}
        /\ seg \notin domains

\* C15: for a non-empty URL, extractSocialHandle returns the final path
\* segment (query string, fragment and one trailing slash removed) when the
\* URL contains one of the domains and the segment is non-empty, has no dot
\* and is no domain token; in every other case it returns the input URL
\* unmodified.
C15_HandleOrFullUrl ==
    (hpc = "returned" /\ handleUrl # "") =>
        handleResult =
            IF SegmentIsHandle(handleUrl, handleDomains)
            THEN FinalSegment(WithoutQueryFragmentSlash(handleUrl))
            ELSE handleUrl

----------------------------------------------------------------------------
(* Claims about the link stage and the in-page probes (SpecPass)           *)

\* <footer><a href="mailto:hello@foo.io?subject=hi">Contact</a>
\*         <a href="https://twitter.com/foocorp">X</a></footer>
FooterExample ==
    << [href |-> "mailto:hello@foo.io?subject=hi", text |-> "Contact",
        html |-> "Contact", cls |-> "", sels |-> {"footer"}],
       [href |-> "https://twitter.com/foocorp", text |-> "X",
        html |-> "X", cls |-> "", sels |-> {"footer", ".social"}] >>

CarriesTwitterIcon(a) ==
    \E c \in {"fa-twitter", "icon-twitter", "twitter-icon"} : a.cls = c

\* C17: when the link stage left the social field empty and the document
\* holds an anchor carrying a social-platform icon class, the broad element
\* scan sets the social field from the URL of such an anchor (the URL or its
\* handle), also when the anchor is nested in a container that holds other
\* anchors before it.
C17_IconAnchorRecovered ==
    [][ ( /\ ppc = "icons" /\ ppc' = "js"
          /\ twitter = ""
          /\ \E i \in 1..Len(doc.anchors) : CarriesTwitterIcon(doc.anchors[i]) )
        => \E i \in 1..Len(doc.anchors) :
              /\ CarriesTwitterIcon(doc.anchors[i])
              /\ twitter' \in
                    { doc.anchors[i].href,
                      FinalSegment(WithoutQueryFragmentSlash(doc.anchors[i].href)) }
      ]_vars

\* C18 as claimed: in a pass whose email is still empty after the link, text
\* and icon stages the JavaScript-context scan is run, whether or not the
\* social or contact-page fields are filled.
C18_JsScanPerField ==
    [][ (ppc = "js" /\ email = "") => evaluated' = Append(evaluated, "js") ]_vars

\* C18: the JavaScript-context scan is run exactly when all four fields are
\* still empty after the link, text and icon stages; a pass whose email is
\* empty while another field is filled skips it.
C18_JsScanOnlyIfNothingFound ==
    [][ ppc = "js" =>
          ( evaluated' = Append(evaluated, "js")
            <=> (email = "" /\ twitter = "" /\ linkedin = "" /\ website = "") )
      ]_vars

\* C18 witness: the scan was skipped in a pass with an empty email and a
\* filled social field.
C18_Witness ==
    /\ ppc = "dom"
    /\ email = ""
    /\ twitter # ""
    /\ Count(evaluated, "js") = 0

----------------------------------------------------------------------------
(* Claims about cron-scraper.js (specification SpecCron)                   *)

\* main has launched the scraper / has attempted the export
Launched == \E i \in 1..Len(steps) : steps[i] = "scraper"

ExportAttempted == \E i \in 1..Len(steps) : steps[i] = "export"

\* updateTargetUrl has returned false
UpdateFailed == Len(steps) >= 1 /\ ~updated

MainOrder == <<"update", "scraper", "export">>

\* C22: main runs its steps strictly in the order update TARGET_URL, run
\* scraper, export; the scraper is never launched when updateTargetUrl
\* returned false, the process then exits with code 1; the export is
\* attempted only after the scraper finished without error, only when
\* GOOGLE_SHEET_ID is set and only when a product_hunt_data_*.csv file was
\* found.
C22_UpdateScraperExport ==
    /\ Len(steps) <= Len(MainOrder)
    /\ steps = SubSeq(MainOrder, 1, Len(steps))
    /\ UpdateFailed => ~Launched
    /\ (UpdateFailed /\ cpc = "exited") => exitCode = "1"
    /\ ExportAttempted =>
          /\ scraperStatus = "finished"
          /\ EnvTruthy(procEnv, "GOOGLE_SHEET_ID")
          /\ StartsWith(latestCsvFile, "product_hunt_data_")
          /\ EndsWith(latestCsvFile, ".csv")
          /\ \E i \in 1..Len(dirFiles) : dirFiles[i].name = latestCsvFile

\* a run that updated, ran the scraper, exported and ended with status 0
C22_Witness == cpc = "exited" /\ steps = MainOrder /\ exitCode = "0"

\* C23: in every run where updateTargetUrl succeeds, the TARGET_URL the
\* launched scraper process receives, and the one main logs before the
\* launch, is the value updateTargetUrl has just written to .env, not the
\* value loaded from .env before the update.
C23_ScraperGetsWrittenUrl ==
    (updated /\ Launched) =>
        /\ childTargetUrl = LineValue(newTargetUrl)
        /\ script = "part_002" =>
              logged = "Running main scraper with TARGET_URL: "
                       \o LineValue(newTargetUrl)

====
